---- MODULE Spec2Model ----
(***************************************************************************)
(* A model of bdic (src/cli.js): one invocation of searchWord, from the    *)
(* request to the rendered output, with the parsed page as a small tree.   *)
(*                                                                         *)
(* Strings are sequences of tokens (a token is a character, or a word that *)
(* is never split); the empty string is <<>>.  A document is a sequence of *)
(* nodes; a node is a text node (key "#text") or an element that one       *)
(* selector of the code matches (key ".class", "#id" or a tag name).       *)
(***************************************************************************)
EXTENDS Integers, Sequences, FiniteSets, TLC

VARIABLES pc, dict, complete, word, spinner, requests, response, doc, result, calls,
          stdout, stderr, exitCode

vars == <<pc, dict, complete, word, spinner, requests, response, doc, result, calls,
          stdout, stderr, exitCode>>

----------------------------------------------------------------------------
(* Bounds of the input families. *)

\* sentence-list items on a source A page (the code keeps 4)
MaxSens == 5
\* definition bars inside the definition container
MaxBars == 3
\* length of the raw text that whitespace normalization is applied to
MaxRawLen == 4
\* length of what follows "star" in the star element's class attribute
MaxClassLen == 3

----------------------------------------------------------------------------
(* Strings *)

Whitespace == {" ", "\n", "\t"}

Digits == {"0", "1", "2", "3", "4", "5", "6", "7", "8", "9"}

RECURSIVE Concat(_)
\* Array.prototype.join('') of a sequence of strings
Concat(ss) == IF ss = <<>> THEN <<>> ELSE Head(ss) \o Concat(Tail(ss))

RECURSIVE Join(_, _)
\* Array.prototype.join(sep)
Join(ss, sep) ==
  IF ss = <<>> THEN <<>>
  ELSE IF Len(ss) = 1 THEN Head(ss)
  ELSE Head(ss) \o sep \o Join(Tail(ss), sep)

StartsWith(s, p) == Len(s) >= Len(p) /\ SubSeq(s, 1, Len(p)) = p

RECURSIVE TrimStart(_)
TrimStart(s) ==
  IF s # <<>> /\ Head(s) \in Whitespace THEN TrimStart(Tail(s)) ELSE s

RECURSIVE TrimEnd(_)
TrimEnd(s) ==
  IF s # <<>> /\ s[Len(s)] \in Whitespace THEN TrimEnd(SubSeq(s, 1, Len(s) - 1)) ELSE s

\* String.prototype.trim
Trim(s) == TrimEnd(TrimStart(s))

RECURSIVE CollapseFirstRun(_)
\* s.replace(/\s+/, ' '): only the first whitespace run becomes one space
CollapseFirstRun(s) ==
  IF s = <<>> THEN <<>>
  ELSE IF Head(s) \in Whitespace THEN <<" ">> \o TrimStart(Tail(s))
  ELSE <<Head(s)>> \o CollapseFirstRun(Tail(s))

RECURSIVE CollapseWs(_)
\* s.replace(/\s+/g, ' '): every maximal whitespace run becomes one space
CollapseWs(s) ==
  IF s = <<>> THEN <<>>
  ELSE IF Head(s) \in Whitespace THEN <<" ">> \o CollapseWs(TrimStart(Tail(s)))
  ELSE <<Head(s)>> \o CollapseWs(Tail(s))

\* s.replace(/\s+/g, ' ').trim()
Normalize(s) == Trim(CollapseWs(s))

RECURSIVE DigitRun(_)
\* the maximal run of digits at the head of s
DigitRun(s) ==
  IF s # <<>> /\ Head(s) \in Digits THEN <<Head(s)>> \o DigitRun(Tail(s)) ELSE <<>>

RECURSIVE MatchDigits(_)
\* s.match(/\d+/): the first run of digits, <<>> for null (a match is never empty)
MatchDigits(s) ==
  IF s = <<>> THEN <<>>
  ELSE IF Head(s) \in Digits THEN DigitRun(s)
  ELSE MatchDigits(Tail(s))

DigitVal(d) ==
  CASE d = "0" -> 0 [] d = "1" -> 1 [] d = "2" -> 2 [] d = "3" -> 3 [] d = "4" -> 4
    [] d = "5" -> 5 [] d = "6" -> 6 [] d = "7" -> 7 [] d = "8" -> 8 [] d = "9" -> 9

RECURSIVE ToNumber(_)
\* the number a string of digits is coerced to
ToNumber(s) ==
  IF s = <<>> THEN 0 ELSE 10 * ToNumber(SubSeq(s, 1, Len(s) - 1)) + DigitVal(s[Len(s)])

\* a small number as a string
NumStr(n) ==
  CASE n = 0 -> <<"0">> [] n = 1 -> <<"1">> [] n = 2 -> <<"2">> [] n = 3 -> <<"3">>
    [] n = 4 -> <<"4">> [] n = 5 -> <<"5">> [] n = 6 -> <<"6">> [] n = 7 -> <<"7">>
    [] n = 8 -> <<"8">> [] n = 9 -> <<"9">> [] OTHER -> <<"9+">>

\* s.repeat(n)
Repeat(s, n) == [i \in 1..(n * Len(s)) |-> s[((i - 1) % Len(s)) + 1]]

\* chalk.<style>(s)
Chalk(style, s) == <<"<" , style, ">">> \o s \o <<"</", style, ">">>

\* values the code leaves as a number or as a string
JSNumber(n) == [type |-> "number", num |-> n, str |-> <<>>]

JSString(s) == [type |-> "string", num |-> 0, str |-> s]

\* truthiness of such a value
Truthy(v) == IF v.type = "number" THEN v.num # 0 ELSE v.str # <<>>

----------------------------------------------------------------------------
(* The tree query adapter (cheerio) *)

T(s) == [key |-> "#text", extra |-> <<>>, text |-> s, kids |-> <<>>]

E(key, kids) == [key |-> key, extra |-> <<>>, text |-> <<>>, kids |-> kids]

\* an element whose class attribute goes on after the class it is selected by
EX(key, extra, kids) == [key |-> key, extra |-> extra, text |-> <<>>, kids |-> kids]

RECURSIVE Descendants(_)
\* the nodes of a forest in document order
Descendants(nodes) ==
  IF nodes = <<>> THEN <<>>
  ELSE <<Head(nodes)>> \o Descendants(Head(nodes).kids) \o Descendants(Tail(nodes))

HasKey(k, n) == n.key = k

\* $(selector) over a forest, and $(el).find(selector) over el.kids
Select(nodes, k) == SelectSeq(Descendants(nodes), LAMBDA n : HasKey(k, n))

Find(el, k) == Select(el.kids, k)

RECURSIVE FlatMapKids(_)
FlatMapKids(els) == IF els = <<>> THEN <<>> ELSE Head(els).kids \o FlatMapKids(Tail(els))

\* the elements with key k below the elements els
Below(els, k) == Select(FlatMapKids(els), k)

\* $('a b'): the b below an a
SelectIn(nodes, a, b) == Below(Select(nodes, a), b)

RECURSIVE TextOfNodes(_)
\* .text(): the text nodes below the selection, concatenated in document order
TextOfNodes(nodes) ==
  IF nodes = <<>> THEN <<>>
  ELSE (IF Head(nodes).key = "#text" THEN Head(nodes).text
        ELSE TextOfNodes(Head(nodes).kids)) \o TextOfNodes(Tail(nodes))

Text(sel) == TextOfNodes(sel)

RECURSIVE Html(_)
\* the markup of a forest
Html(nodes) ==
  IF nodes = <<>> THEN <<>>
  ELSE (IF Head(nodes).key = "#text" THEN Head(nodes).text
        ELSE <<"<", Head(nodes).key, ">">> \o Html(Head(nodes).kids)
               \o <<"</", Head(nodes).key, ">">>) \o Html(Tail(nodes))

\* .html(): the inner markup of the first selected element, null when there is none
InnerHtml(sel) ==
  IF sel = <<>> THEN [null |-> TRUE, html |-> <<>>]
  ELSE [null |-> FALSE, html |-> Html(Head(sel).kids)]

\* a template literal's rendering of that value
HtmlStr(h) == IF h.null THEN <<"null">> ELSE h.html

Styled(style, s) ==
  CASE style = "plain" -> s
    [] style = "cyan" -> Chalk("cyan", s)
    [] style = "remove" -> <<>>

RECURSIVE ReplaceWith(_, _, _)
\* $(el).find(keys).replaceWith(...): every element below with one of the keys
\* becomes a text node holding its own text, styled
ReplaceWith(nodes, keys, style) ==
  IF nodes = <<>> THEN <<>>
  ELSE (IF Head(nodes).key \in keys
          THEN <<T(Styled(style, TextOfNodes(<<Head(nodes)>>)))>>
          ELSE <<[Head(nodes) EXCEPT !.kids = ReplaceWith(Head(nodes).kids, keys, style)]>>)
       \o ReplaceWith(Tail(nodes), keys, style)

\* the class attribute of a selected .star element
ClassAttr(n) == <<"s", "t", "a", "r">> \o n.extra

----------------------------------------------------------------------------
(* The record: a function from the names of the fields it has to their values *)

EmptyRecord == <<>>

Has(r, f) == f \in DOMAIN r

Set(r, f, v) == [x \in DOMAIN r \cup {f} |-> IF x = f THEN v ELSE r[x]]

Delete(r, f) == [x \in DOMAIN r \ {f} |-> r[x]]

NonEmpty(s) == s # <<>>

----------------------------------------------------------------------------
(* Source A extractors *)

\* the phonetic symbol of one pronunciation-list item
PnText(el) == Text(Find(el, ".client_def_hd_pn"))

\* .map over PnText
PnTexts(els) == [i \in 1..Len(els) |-> PnText(els[i])]

\* a definition bar without a word-tag marker
NoWordTag(el) == Len(Find(el, ".client_def_list_word_Tag")) = 0

\* a filter that keeps the tagged bars too
KeepAnyBar(el) == TRUE

\* the bars the first filter of the concise definitions keeps
KeepBar(el) == NoWordTag(el)

PosDef(el) ==
  [pos |-> Text(Find(el, ".client_def_title_bar")),
   def |-> Text(Find(el, ".client_def_list"))]

\* .map over PosDef
PosDefs(els) == [i \in 1..Len(els) |-> PosDef(els[i])]

BothParts(e) == e.pos # <<>> /\ e.def # <<>>

InfText(el) == Trim(Text(<<el>>))

\* .map over InfText
InfTexts(els) == [i \in 1..Len(els) |-> InfText(els[i])]

SenWordKeys == {".client_sen_en_word", ".client_sen_cn_word", ".client_sen_word"}

\* what the map over the sentence-list items returns for one item
SentenceEntry(el) ==
  LET plain == ReplaceWith(el.kids, SenWordKeys, "plain")
      marked == ReplaceWith(plain, {".client_sentence_search"}, "cyan")
  IN  [en |-> InnerHtml(Select(marked, ".client_sen_en")),
       chs |-> InnerHtml(Select(marked, ".client_sen_cn")),
       source |-> Text(Select(marked, ".client_sentence_list_link"))]

\* .map over SentenceEntry
SentenceEntries(els) == [i \in 1..Len(els) |-> SentenceEntry(els[i])]

\* .slice(0, n)
SliceFrom0(s, n) == SubSeq(s, 1, IF Len(s) < n THEN Len(s) ELSE n)

\* a cap that is one too large
SentenceCapOffByOne(s) == SliceFrom0(s, 5)

\* .slice(0, 4)
SentenceCap(s) == SliceFrom0(s, 4)

client_def_hd_hd(d, res) ==
  LET r0 == Set(res, "title", Text(Select(d, ".client_def_hd_hd")))
      prons == Select(d, ".client_def_hd_pn_list")
      phsym == Concat(SelectSeq(PnTexts(prons), NonEmpty))
      r1 == IF Len(prons) > 0
              THEN (IF Len(phsym) = 0 THEN Delete(Set(r0, "phsym", phsym), "phsym")
                    ELSE Set(r0, "phsym", phsym))
              ELSE r0
      defs == SelectIn(d, ".client_def_container", ".client_def_bar")
      cdef == SelectSeq(PosDefs(SelectSeq(defs, KeepBar)), BothParts)
      r2 == IF Len(defs) > 0
              THEN (IF Len(cdef) = 0 THEN Delete(Set(r1, "cdef", cdef), "cdef")
                    ELSE Set(r1, "cdef", cdef))
              ELSE r1
      infs == Select(d, ".client_word_change_word")
      inftext == Join(SelectSeq(InfTexts(infs), NonEmpty), <<",", " ">>)
      r3 == IF Len(infs) > 0
              THEN (IF Len(inftext) = 0 THEN Delete(Set(r2, "infs", inftext), "infs")
                    ELSE Set(r2, "infs", inftext))
              ELSE r2
      sens == Select(d, ".client_sentence_list")
      r4 == IF Len(sens) > 0
              THEN Set(r3, "sentences", SentenceCap(SentenceEntries(sens)))
              ELSE r3
  IN  r4

client_trans_head(d, res) == Set(res, "mt", Text(Select(d, ".client_sen_cn")))

Meaning(el) ==
  [word |-> Text(Find(el, ".client_do_you_mean_list_word")),
   def |-> Text(Find(el, ".client_do_you_mean_list_def"))]

\* .map over Meaning
Meanings(els) == [i \in 1..Len(els) |-> Meaning(els[i])]

AreaHasList(area) == Len(Find(area, ".client_do_you_mean_list")) > 0

AreaEntry(area) ==
  [title |-> Text(Find(area, ".client_do_you_mean_title")),
   meanings |-> Meanings(Find(area, ".client_do_you_mean_list"))]

\* .map over AreaEntry
AreaEntries(els) == [i \in 1..Len(els) |-> AreaEntry(els[i])]

client_do_you_mean_title_bar(d, res) ==
  LET r0 == Set(res, "title", Text(Select(d, ".client_do_you_mean_title_bar")))
      areas == Select(d, ".client_do_you_mean_area")
  IN  Set(r0, "defs", AreaEntries(SelectSeq(areas, AreaHasList)))

----------------------------------------------------------------------------
(* Source B extractor *)

\* ($('.star').attr('class')?.match(/\d+/) || [0])[0]
Stars(d) ==
  LET star == Select(d, ".star")
      m == IF star = <<>> THEN <<>> ELSE MatchDigits(ClassAttr(Head(star)))
  IN  IF m = <<>> THEN JSNumber(0) ELSE JSString(m)

NormText(el) == Normalize(Text(<<el>>))

\* .map over NormText
NormTexts(els) == [i \in 1..Len(els) |-> NormText(els[i])]

\* what the map over the example sentences returns for one list item
Example(el) ==
  LET marked == ReplaceWith(el.kids, {"b"}, "cyan")
      via == Select(marked, ".example-via")
      pos == Chalk("dim", <<"(">> \o Text(via) \o <<")">>)
      rest == ReplaceWith(marked, {".example-via"}, "remove")
  IN  Trim(Text(Select(rest, "p"))) \o <<" ", " ", " ">> \o pos

\* .map over Example
Examples(els) == [i \in 1..Len(els) |-> Example(els[i])]

\* the text a single-text field of source B is set to
FieldText(raw) == Normalize(raw)

handle_youdao(d, res) ==
  LET r0 == Set(res, "title", Text(Select(d, ".keyword")))
      r1 == Set(r0, "stars", Stars(d))
      r2 == Set(r1, "rank", Text(Select(d, ".rank")))
      r3 == Set(r2, "pattern", FieldText(Text(Select(d, ".pattern"))))
      r4 == Set(r3, "prons",
                Join(SelectSeq(NormTexts(SelectIn(d, ".baav", ".pronounce")), NonEmpty),
                     <<" ">>))
      r5 == Set(r4, "basic",
                SelectSeq(NormTexts(Below(SelectIn(d, "#phrsListTab", ".trans-container"),
                                          "li")), NonEmpty))
      r6 == Set(r5, "discrimination", FieldText(Text(Select(d, "#discriminate"))))
      r7 == Set(r6, "sentence",
                Examples(Below(SelectIn(d, "#authority", ".ol"), "li")))
      r8 == Set(r7, "translation",
                FieldText(Text(SelectIn(d, "#fanyiToggle", ".trans-container"))))
  IN  r8

----------------------------------------------------------------------------
(* text(response) on a response that is not ok, lines 22-32 *)

\* the markup declaration a page begins with
Declaration == <<"<", "!", "doctype html", ">">>

\* response.text(): the body as the string it is
Raw(body) == (IF body.decl THEN Declaration ELSE <<>>) \o Html(body.nodes)

\* cheerio.load of the body's string: a body is held as the tree its string parses
\* to (decl: whether the string opens with a declaration), and Raw gives the string
Load(body) == body.nodes

\* a description that takes the marker's text even when it is empty
DescribeUnguarded(body, statusText) ==
  LET message == Raw(body)
      m2 == IF StartsWith(message, <<"<", "!">>)
              THEN Text(Select(Load(body), ".sc_error")) ELSE message
  IN  IF m2 # <<>> THEN m2 ELSE statusText

\* the message text() writes: message || response.statusText
Describe(body, statusText) ==
  LET message == Raw(body)
      sc_error == Text(Select(Load(body), ".sc_error"))
      m2 == IF StartsWith(message, <<"<", "!">>) /\ sc_error # <<>> THEN sc_error ELSE message
  IN  IF m2 # <<>> THEN m2 ELSE statusText

----------------------------------------------------------------------------
(* Classification, lines 60-66 and 75-80 *)

Present(d, k) == Len(Select(d, k)) > 0

\* a chain that asks for the suggestion title first
BingShapeSuggestionsFirst(d) ==
  IF Present(d, ".client_do_you_mean_title_bar") THEN "suggestions"
  ELSE IF Present(d, ".client_def_hd_hd") THEN "definition"
  ELSE IF Present(d, ".client_trans_head") THEN "translation"
  ELSE "unknown"

BingShape(d) ==
  IF Present(d, ".client_def_hd_hd") THEN "definition"
  ELSE IF Present(d, ".client_trans_head") THEN "translation"
  ELSE IF Present(d, ".client_do_you_mean_title_bar") THEN "suggestions"
  ELSE "unknown"

YoudaoShape(d) == IF Present(d, ".error-typo") THEN "typo" ELSE "full"

\* a typo branch that goes on to the full extractor
TypoRecordAndFull(d) ==
  Set(handle_youdao(d, EmptyRecord), "list", Text(Select(d, ".error-typo")))

\* result.list = typo.text()
TypoRecord(d) == Set(EmptyRecord, "list", Text(Select(d, ".error-typo")))

----------------------------------------------------------------------------
(* Rendering, lines 84-149 *)

Indent == <<" ", " ", " ", " ">>

\* result.f as a condition, for a field that holds a string
TruthyText(r, f) == Has(r, f) /\ r[f] # <<>>

\* a test that asks only whether the record has the key
HasTitleKey(r) == Has(r, "title")

\* result.title as a condition (line 86)
HasTitle(r) == TruthyText(r, "title")

Headword(r) == Chalk("whiteBright.bold.underline", r.title)

CdefLine(a) == Indent \o Chalk("cyanBright", a.pos) \o <<" ">> \o Chalk("whiteBright", a.def)

\* .map over CdefLine
CdefLines(els) == [i \in 1..Len(els) |-> CdefLine(els[i])]

BasicLine(a) == Indent \o Chalk("whiteBright", a)

\* .map over BasicLine
BasicLines(els) == [i \in 1..Len(els) |-> BasicLine(els[i])]

SentencesLines(ss) ==
  Concat([i \in 1..Len(ss) |->
    << Indent \o Chalk("whiteBright", NumStr(i) \o <<".">>) \o <<" ">>
         \o Chalk("whiteBright", HtmlStr(ss[i].en)) \o <<" ", " ", " ">>
         \o Chalk("dim", <<"(">> \o ss[i].source \o <<")">>),
       Indent \o <<" ", " ", " ">> \o Chalk("white", HtmlStr(ss[i].chs)),
       <<>> >>])

SentenceLines(ss) ==
  Concat([i \in 1..Len(ss) |->
    << Indent \o Chalk("whiteBright", NumStr(i) \o <<".">>) \o <<" ">>
         \o Chalk("whiteBright", ss[i]),
       <<>> >>])

\* the star character repeated result.stars times: a string is coerced to its number
StarsText(v) == Repeat(<<"*">>, IF v.type = "number" THEN v.num ELSE ToNumber(v.str))

RecordLines(r, c) ==
  << <<>> >>
  \o (IF c /\ TruthyText(r, "phsym")
        THEN << Indent \o Headword(r) \o <<" ", " ">> \o r.phsym, <<>> >> ELSE <<>>)
  \o (IF c /\ TruthyText(r, "prons")
        THEN << Indent \o Headword(r) \o <<" ", " ">> \o r.prons
                \o (IF TruthyText(r, "rank")
                      THEN <<" ", " ">> \o Chalk("dim", <<"(">> \o r.rank \o <<")">>)
                      ELSE <<>>)
                \o (IF Has(r, "stars") /\ Truthy(r.stars)
                      THEN <<" ", " ">> \o Chalk("yellowBright", StarsText(r.stars))
                      ELSE <<>>),
                <<>> >>
        ELSE <<>>)
  \o (IF c /\ TruthyText(r, "infs")
        THEN << Indent \o Chalk("cyanBright", <<"forms">>) \o <<" ">>
                \o Chalk("whiteBright", r.infs), <<>> >> ELSE <<>>)
  \o (IF c /\ TruthyText(r, "pattern")
        THEN << Indent \o Chalk("cyanBright", <<"forms">>) \o <<" ">>
                \o Chalk("whiteBright", r.pattern), <<>> >> ELSE <<>>)
  \o (IF Has(r, "cdef") THEN CdefLines(r.cdef) \o << <<>> >> ELSE <<>>)
  \o (IF Has(r, "basic") THEN BasicLines(r.basic) \o << <<>> >> ELSE <<>>)
  \o (IF c /\ Has(r, "sentences")
        THEN << Indent \o Chalk("bgWhite.black", <<" examples ">>), <<>> >>
             \o SentencesLines(r.sentences) ELSE <<>>)
  \o (IF c /\ Has(r, "sentence")
        THEN << Indent \o Chalk("bgWhite.black", <<" examples ">>), <<>> >>
             \o SentenceLines(r.sentence) ELSE <<>>)

NoResultLine == Chalk("red", <<"No result.">>)

----------------------------------------------------------------------------
(* The pages and responses an invocation is run on *)

SeqsUpTo(S, n) == UNION {[1..k -> S] : k \in 0..n}

Opt(b, nodes) == IF b THEN nodes ELSE <<>>

\* source A
DefHd == E(".client_def_hd_hd", <<T(<<"hello">>)>>)

TransHead == E(".client_trans_head", <<T(<<"Machine Translation">>)>>)

SenCn(t) == E(".client_sen_cn", <<T(t)>>)

DymTitle == E(".client_do_you_mean_title_bar", <<T(<<"Did you mean">>)>>)

PnList(t) == E(".client_def_hd_pn_list", <<E(".client_def_hd_pn", <<T(t)>>)>>)

Bar(b) ==
  E(".client_def_bar",
    Opt(b.tag, <<E(".client_def_list_word_Tag", <<T(<<"Web">>)>>)>>)
    \o <<E(".client_def_title_bar", <<T(b.pos)>>), E(".client_def_list", <<T(b.def)>>)>>)

Container(bars) == E(".client_def_container", bars)

Inf(t) == E(".client_word_change_word", <<T(t)>>)

SenItem(i, full) ==
  E(".client_sentence_list",
    Opt(full, <<E(".client_sen_en",
                  <<E(".client_sen_en_word", <<T(<<"en">> \o NumStr(i))>>), T(<<" ">>),
                    E(".client_sen_en_word",
                      <<E(".client_sentence_search", <<T(<<"hello">>)>>)>>)>>)>>)
    \o <<E(".client_sen_cn", <<E(".client_sen_cn_word", <<T(<<"cn">> \o NumStr(i))>>)>>),
         E(".client_sentence_list_link", <<T(<<"source">> \o NumStr(i))>>)>>)

DymList(w) ==
  E(".client_do_you_mean_list",
    <<E(".client_do_you_mean_list_word", <<T(w)>>),
      E(".client_do_you_mean_list_def", <<T(<<"def of">> \o w)>>)>>)

Area(n) ==
  E(".client_do_you_mean_area",
    <<E(".client_do_you_mean_title", <<T(<<"group">>)>>)>>
    \o [i \in 1..n |-> DymList(<<"w">> \o NumStr(i))])

BarVariants ==
  {[tag |-> t, pos |-> pd[1], def |-> pd[2]] :
     t \in BOOLEAN,
     pd \in {<< <<"n.">>, <<"a">> >>, << <<"v.">>, <<"b">> >>,
             << <<>>, <<"a">> >>, << <<"v.">>, <<>> >>}}

StrayBar == Bar([tag |-> FALSE, pos |-> <<"adj.">>, def |-> <<"stray">>])

\* what a page of any shape may hold besides its markers
BingContent ==
  <<PnList(<<"/h/">>), Container(<<Bar([tag |-> FALSE, pos |-> <<"n.">>, def |-> <<"a">>])>>),
    Inf(<<"hellos">>), SenItem(1, TRUE), Area(1)>>

BingMarkerDocs ==
  {Opt(m[3], <<DymTitle>>) \o Opt(m[2], <<TransHead, SenCn(<<"ni hao">>)>>)
     \o Opt(m[1], <<DefHd>>) \o Opt(m[4], BingContent) :
       m \in BOOLEAN \X BOOLEAN \X BOOLEAN \X BOOLEAN}

BingBarDocs ==
  {<<DefHd, StrayBar, Container([i \in 1..Len(bs) |-> Bar(bs[i])])>> :
     bs \in SeqsUpTo(BarVariants, MaxBars)}

BingSenDocs ==
  {<<DefHd>> \o [i \in 1..Len(fs) |-> SenItem(i, fs[i])] : fs \in SeqsUpTo(BOOLEAN, MaxSens)}

BingPnInfDocs ==
  {<<DefHd>> \o [i \in 1..Len(ps) |-> PnList(ps[i])] \o [i \in 1..Len(fs) |-> Inf(fs[i])] :
     ps \in SeqsUpTo({<<>>, <<"/h/">>}, 2),
     fs \in SeqsUpTo({<<>>, <<" ">>, <<"x">>, <<" ", "y", " ">>}, 2)}

BingDymDocs ==
  {<<DymTitle>> \o [i \in 1..Len(ns) |-> Area(ns[i])] : ns \in SeqsUpTo(0..2, 2)}

BingDocs == BingMarkerDocs \cup BingBarDocs \cup BingSenDocs \cup BingPnInfDocs \cup BingDymDocs

\* source B
Keyword == E(".keyword", <<T(<<"hello">>)>>)

Typo == E(".error-typo", <<T(<<"not found">>)>>)

YoudaoParts ==
  [typo |-> <<Typo>>,
   keyword |-> <<Keyword>>,
   star |-> <<EX(".star", <<" ", "s", "t", "a", "r", "4">>, <<>>)>>,
   rank |-> <<E(".rank", <<T(<<"CET4">>)>>)>>,
   pattern |-> <<E(".pattern", <<T(<<" ", "(", "hellos", "\n", " ", ")", " ">>)>>)>>,
   prons |-> <<E(".baav", <<E(".pronounce", <<T(<<"UK", "\n", " ", "[h]">>)>>),
                            E(".pronounce", <<T(<<" ">>)>>),
                            E(".pronounce", <<T(<<"US", " ", "[h]">>)>>)>>)>>,
   basic |-> <<E("#phrsListTab",
                 <<E(".trans-container", <<E("li", <<T(<<"int.", " ", " ", "hi">>)>>),
                                           E("li", <<T(<<"\n">>)>>)>>)>>)>>,
   discrimination |-> <<E("#discriminate", <<T(<<"hello", "\n", "hi">>)>>)>>,
   sentence |-> <<E("#authority",
                    <<E(".ol", <<E("li", <<E("p", <<T(<<" ", "say", " ">>), E("b", <<T(<<"hello">>)>>),
                                                   E(".example-via", <<T(<<"VOA">>)>>)>>)>>)>>)>>)>>,
   translation |-> <<E("#fanyiToggle", <<E(".trans-container", <<T(<<" ", "ni hao", "\n">>)>>)>>)>>]

PartOrder ==
  <<"keyword", "star", "rank", "pattern", "prons", "basic", "discrimination", "sentence",
    "translation", "typo">>

YoudaoDoc(ps) == Concat([i \in 1..Len(PartOrder) |-> Opt(PartOrder[i] \in ps, YoudaoParts[PartOrder[i]])])

YoudaoPartDocs == {YoudaoDoc(ps) : ps \in SUBSET DOMAIN YoudaoParts}

\* the parts present and blank
YoudaoBlankDocs ==
  {Opt(k, <<Keyword>>)
   \o <<E(".rank", <<>>), E(".pattern", <<T(<<" ", "\n">>)>>), E(".baav", <<E(".pronounce", <<T(<<" ">>)>>)>>),
        E("#phrsListTab", <<E(".trans-container", <<E("li", <<T(<<" ">>)>>)>>)>>),
        E("#discriminate", <<>>), E("#authority", <<E(".ol", <<>>)>>),
        E("#fanyiToggle", <<E(".trans-container", <<T(<<"\n">>)>>)>>)>>
   \o Opt(t, <<E(".error-typo", <<>>)>>) : k \in BOOLEAN, t \in BOOLEAN}

ClassChars == {" ", "r", "0", "2"}

\* the class attribute is "star", or "star " and more classes
YoudaoStarDocs ==
  {<<Keyword, E(".baav", <<E(".pronounce", <<T(<<"[h]">>)>>)>>),
     EX(".star", IF x = <<>> THEN <<>> ELSE <<" ">> \o x, <<>>)>>
     \o Opt(two, <<EX(".star", <<" ", "s", "5">>, <<>>)>>) :
       x \in SeqsUpTo(ClassChars, MaxClassLen), two \in BOOLEAN}

RawChars == {"a", "b", " ", "\n"}

YoudaoPatternDocs ==
  {<<Keyword, E(".pattern", <<T(raw)>>)>> : raw \in SeqsUpTo(RawChars, MaxRawLen)}

YoudaoDocs == YoudaoPartDocs \cup YoudaoBlankDocs \cup YoudaoStarDocs \cup YoudaoPatternDocs

Docs(dc) == IF dc = "bing" THEN BingDocs ELSE YoudaoDocs

\* the bodies of responses that are not ok
ErrorBodies ==
  {[decl |-> dcl, nodes |-> ns] :
     dcl \in BOOLEAN,
     ns \in {<<>>,
             <<T(<<"Too Many Requests">>)>>,
             <<T(<<"<", "!", "-- down --", ">">>)>>,
             <<E("span", <<T(<<"Sorry">>)>>), E(".sc_error", <<T(<<"Rate limited">>)>>)>>,
             <<E("span", <<T(<<"Sorry">>)>>), E(".sc_error", <<>>)>>,
             <<E(".sc_error", <<T(<<"Rate">>)>>), E(".sc_error", <<T(<<" limited">>)>>)>>,
             <<E("span", <<T(<<"Sorry">>)>>)>>}}

StatusTexts == {<<>>, <<"Service Unavailable">>}

Words == {<<"hello">>, <<"good", " ", "\n", "bye">>}

NoBody == [decl |-> FALSE, nodes |-> <<>>]

NoResponse == [got |-> FALSE, ok |-> FALSE, body |-> NoBody, statusText |-> <<>>]

----------------------------------------------------------------------------
(* The replacements the extractors make in the tree they read *)

RECURSIVE Within(_, _, _, _)
\* $(path).find(keys).replaceWith(...) for every element the path selects
Within(nodes, path, keys, style) ==
  IF nodes = <<>> THEN <<>>
  ELSE <<IF Head(nodes).key = Head(path)
           THEN (IF Len(path) = 1
                   THEN [Head(nodes) EXCEPT !.kids = ReplaceWith(@, keys, style)]
                   ELSE [Head(nodes) EXCEPT !.kids = Within(@, Tail(path), keys, style)])
           ELSE [Head(nodes) EXCEPT !.kids = Within(@, path, keys, style)]>>
       \o Within(Tail(nodes), path, keys, style)

\* the tree after client_def_hd_hd, lines 197-202
AfterSentences(d) ==
  IF Present(d, ".client_sentence_list")
    THEN Within(Within(d, <<".client_sentence_list">>, SenWordKeys, "plain"),
                <<".client_sentence_list">>, {".client_sentence_search"}, "cyan")
    ELSE d

\* the tree after handle_youdao, lines 255-260
AfterExamples(d) ==
  Within(Within(d, <<"#authority", ".ol", "li">>, {"b"}, "cyan"),
         <<"#authority", ".ol", "li">>, {".example-via"}, "remove")

----------------------------------------------------------------------------
(* One invocation of searchWord *)

\* encodeURIComponent over the characters the words hold
Encode(s) == [i \in 1..Len(s) |-> IF s[i] = " " THEN "%20" ELSE s[i]]

Url(dc, w) == [base |-> IF dc = "bing" THEN "BING" ELSE "YOUDAO", q |-> Encode(CollapseWs(w))]

Init ==
  /\ pc = "start"
  /\ dict \in {"bing", "youdao"}
  /\ complete \in BOOLEAN
  /\ word \in Words
  /\ spinner = "none"
  /\ requests = <<>>
  /\ response = NoResponse
  /\ doc = <<>>
  /\ result = EmptyRecord
  /\ calls = <<>>
  /\ stdout = <<>>
  /\ stderr = <<>>
  /\ exitCode = <<>>

\* lines 44-56 and 71: the spinner starts and the request is issued
Start ==
  /\ pc = "start"
  /\ spinner' = "spinning"
  /\ requests' = Append(requests, Url(dict, word))
  /\ pc' = "fetch"
  /\ UNCHANGED <<dict, complete, word, response, doc, result, calls, stdout, stderr, exitCode>>

\* fetch resolves with a response that is ok
FetchOk ==
  /\ pc = "fetch"
  /\ \E d \in Docs(dict) :
       response' = [got |-> TRUE, ok |-> TRUE, body |-> [decl |-> TRUE, nodes |-> d],
                    statusText |-> <<"OK">>]
  /\ pc' = "text"
  /\ UNCHANGED <<dict, complete, word, spinner, requests, doc, result, calls, stdout, stderr,
                 exitCode>>

\* fetch resolves with a response that is not ok
FetchNotOk ==
  /\ pc = "fetch"
  /\ \E b \in ErrorBodies, st \in StatusTexts :
       response' = [got |-> TRUE, ok |-> FALSE, body |-> b, statusText |-> st]
  /\ pc' = "text"
  /\ UNCHANGED <<dict, complete, word, spinner, requests, doc, result, calls, stdout, stderr,
                 exitCode>>

\* fetch rejects: nothing catches it and the process ends
FetchReject ==
  /\ pc = "fetch"
  /\ stderr' = Append(stderr, <<"TypeError: fetch failed">>)
  /\ exitCode' = <<1>>
  /\ pc' = "exited"
  /\ UNCHANGED <<dict, complete, word, spinner, requests, response, doc, result, calls, stdout>>

\* a text() that writes the message and goes on with the body
TextNotOkNoExit ==
  /\ pc = "text"
  /\ ~response.ok
  /\ spinner' = "stopped"
  /\ stderr' = Append(stderr, Chalk("red", Describe(response.body, response.statusText)))
  /\ doc' = Load(response.body)
  /\ pc' = "loaded"
  /\ UNCHANGED <<dict, complete, word, requests, response, result, calls, stdout, exitCode>>

\* text(), lines 22-33: the message is written and the process exits with 1
TextNotOk ==
  /\ pc = "text"
  /\ ~response.ok
  /\ spinner' = "stopped"
  /\ stderr' = Append(stderr, Chalk("red", Describe(response.body, response.statusText)))
  /\ exitCode' = <<1>>
  /\ pc' = "exited"
  /\ UNCHANGED <<dict, complete, word, requests, response, doc, result, calls, stdout>>

\* text(), line 35, then cheerio.load
TextOk ==
  /\ pc = "text"
  /\ response.ok
  /\ doc' = Load(response.body)
  /\ pc' = "loaded"
  /\ UNCHANGED <<dict, complete, word, spinner, requests, response, result, calls, stdout,
                 stderr, exitCode>>

BingDefinition ==
  /\ pc = "loaded" /\ dict = "bing" /\ BingShape(doc) = "definition"
  /\ result' = client_def_hd_hd(doc, result)
  /\ calls' = Append(calls, "client_def_hd_hd")
  /\ doc' = AfterSentences(doc)
  /\ pc' = "render"
  /\ UNCHANGED <<dict, complete, word, spinner, requests, response, stdout, stderr, exitCode>>

BingTranslation ==
  /\ pc = "loaded" /\ dict = "bing" /\ BingShape(doc) = "translation"
  /\ result' = client_trans_head(doc, result)
  /\ calls' = Append(calls, "client_trans_head")
  /\ pc' = "render"
  /\ UNCHANGED <<dict, complete, word, spinner, requests, response, doc, stdout, stderr,
                 exitCode>>

BingSuggestions ==
  /\ pc = "loaded" /\ dict = "bing" /\ BingShape(doc) = "suggestions"
  /\ result' = client_do_you_mean_title_bar(doc, result)
  /\ calls' = Append(calls, "client_do_you_mean_title_bar")
  /\ pc' = "render"
  /\ UNCHANGED <<dict, complete, word, spinner, requests, response, doc, stdout, stderr,
                 exitCode>>

BingUnknown ==
  /\ pc = "loaded" /\ dict = "bing" /\ BingShape(doc) = "unknown"
  /\ pc' = "render"
  /\ UNCHANGED <<dict, complete, word, spinner, requests, response, doc, result, calls,
                 stdout, stderr, exitCode>>

YoudaoTypo ==
  /\ pc = "loaded" /\ dict = "youdao" /\ YoudaoShape(doc) = "typo"
  /\ result' = TypoRecord(doc)
  /\ pc' = "render"
  /\ UNCHANGED <<dict, complete, word, spinner, requests, response, doc, calls, stdout,
                 stderr, exitCode>>

YoudaoFull ==
  /\ pc = "loaded" /\ dict = "youdao" /\ YoudaoShape(doc) = "full"
  /\ result' = handle_youdao(doc, result)
  /\ calls' = Append(calls, "handle_youdao")
  /\ doc' = AfterExamples(doc)
  /\ pc' = "render"
  /\ UNCHANGED <<dict, complete, word, spinner, requests, response, stdout, stderr, exitCode>>

\* lines 84-89
RenderNoResult ==
  /\ pc = "render"
  /\ ~HasTitle(result)
  /\ spinner' = "stopped"
  /\ stdout' = Append(stdout, NoResultLine)
  /\ exitCode' = <<0>>
  /\ pc' = "done"
  /\ UNCHANGED <<dict, complete, word, requests, response, doc, result, calls, stderr>>

\* lines 84-149
RenderRecord ==
  /\ pc = "render"
  /\ HasTitle(result)
  /\ spinner' = "stopped"
  /\ stdout' = stdout \o RecordLines(result, complete)
  /\ exitCode' = <<0>>
  /\ pc' = "done"
  /\ UNCHANGED <<dict, complete, word, requests, response, doc, result, calls, stderr>>

Next ==
  \/ Start
  \/ FetchOk
  \/ FetchNotOk
  \/ FetchReject
  \/ TextNotOk
  \/ TextOk
  \/ BingDefinition
  \/ BingTranslation
  \/ BingSuggestions
  \/ BingUnknown
  \/ YoudaoTypo
  \/ YoudaoFull
  \/ RenderNoResult
  \/ RenderRecord

Spec == Init /\ [][Next]_vars

----------------------------------------------------------------------------
(* The claims *)

\* the page as it was received, before any extractor touched the tree
Page == response.body.nodes

Extracted == pc \in {"render", "done"}

Min(a, b) == IF a < b THEN a ELSE b

DefinitionFields == {"title", "phsym", "cdef", "infs", "sentences"}

\* C1: on a source A page exactly the extractor of the highest-priority marker
\* present has run (definition head, else translation head, else suggestion
\* title, else none), and the record holds fields of that one shape only.
C1_OneExtractorByPriority ==
  (dict = "bing" /\ Extracted) =>
    LET hasDef == Len(Select(Page, ".client_def_hd_hd")) > 0
        hasTrans == Len(Select(Page, ".client_trans_head")) > 0
        hasDym == Len(Select(Page, ".client_do_you_mean_title_bar")) > 0
    IN  /\ calls = (IF hasDef THEN <<"client_def_hd_hd">>
                    ELSE IF hasTrans THEN <<"client_trans_head">>
                    ELSE IF hasDym THEN <<"client_do_you_mean_title_bar">>
                    ELSE <<>>)
        /\ DOMAIN result \subseteq (IF hasDef THEN DefinitionFields
                                    ELSE IF hasTrans THEN {"mt"}
                                    ELSE IF hasDym THEN {"title", "defs"}
                                    ELSE {})
        /\ ~(Has(result, "defs") /\ (Has(result, "cdef") \/ Has(result, "phsym")))
        /\ ~(Has(result, "defs") /\ Has(result, "mt"))

\* all three markers are on the page and the definition extractor alone has run
C1_Witness ==
  /\ dict = "bing" /\ pc = "done"
  /\ Len(Select(Page, ".client_def_hd_hd")) > 0
  /\ Len(Select(Page, ".client_trans_head")) > 0
  /\ Len(Select(Page, ".client_do_you_mean_title_bar")) > 0
  /\ Len(Select(Page, ".client_do_you_mean_area")) > 0
  /\ calls = <<"client_def_hd_hd">>
  /\ Has(result, "cdef")

\* C2: on a source B page with a typo marker the record has the field list, equal
\* to the marker's text, and no other field, whatever else the page holds.
C2_TypoRecordIsListOnly ==
  (dict = "youdao" /\ Extracted /\ Len(Select(Page, ".error-typo")) > 0) =>
    /\ DOMAIN result = {"list"}
    /\ result.list = Text(Select(Page, ".error-typo"))

\* a typo page that also holds a keyword, a rank and a translation
C2_Witness ==
  /\ dict = "youdao" /\ pc = "done"
  /\ Len(Select(Page, ".error-typo")) > 0
  /\ Len(Select(Page, ".keyword")) > 0
  /\ Len(Select(Page, ".rank")) > 0
  /\ Len(Select(Page, "#fanyiToggle")) > 0
  /\ result.list = <<"not found">>

NoShapeMarker ==
  IF dict = "bing"
    THEN /\ Len(Select(Page, ".client_def_hd_hd")) = 0
         /\ Len(Select(Page, ".client_trans_head")) = 0
         /\ Len(Select(Page, ".client_do_you_mean_title_bar")) = 0
    ELSE /\ Len(Select(Page, ".error-typo")) = 0
         /\ Len(Select(Page, ".keyword")) = 0

\* C3: on a page with no shape marker (source A: no definition head, translation
\* head or suggestion title; source B: no typo marker and no keyword) the record
\* has no title to show (none, or the empty string that line 86 takes for none),
\* and the invocation prints "No result." and nothing else.
C3_NoMarkerNoResult ==
  (Extracted /\ NoShapeMarker) =>
    /\ ~Has(result, "title") \/ result.title = <<>>
    /\ dict = "bing" => ~Has(result, "title")
    /\ pc = "done" => stdout = <<NoResultLine>> /\ stderr = <<>> /\ exitCode = <<0>>

\* a source B page with a rank and a translation but neither typo nor keyword
C3_Witness ==
  /\ dict = "youdao" /\ pc = "done" /\ NoShapeMarker
  /\ Len(Select(Page, ".rank")) > 0
  /\ Len(Select(Page, "#fanyiToggle")) > 0
  /\ stdout = <<NoResultLine>>

\* C4: the definition extractor of source A keeps the first min(n, 4) of the n
\* sentence-list items of the page, in document order, and never more than 4
\* (with no item there is no sentences field).
C4_SentencesFirstFour ==
  (dict = "bing" /\ Extracted /\ calls = <<"client_def_hd_hd">>) =>
    LET items == Select(Page, ".client_sentence_list")
        k == Min(Len(items), 4)
    IN  IF Len(items) = 0 THEN ~Has(result, "sentences")
        ELSE /\ Has(result, "sentences")
             /\ Len(result.sentences) = k
             /\ Len(result.sentences) <= 4
             /\ \A i \in 1..k : result.sentences[i] = SentenceEntry(items[i])

\* five items on the page, four kept, the fourth being the page's fourth
C4_Witness ==
  /\ dict = "bing" /\ pc = "done"
  /\ Len(Select(Page, ".client_sentence_list")) = 5
  /\ Has(result, "sentences")
  /\ Len(result.sentences) = 4
  /\ result.sentences[4].source = <<"source", "4">>

\* C5: cdef is the document-ordered sequence of the (partOfSpeech, definition)
\* pairs of the definition bars of the definition container that hold no
\* word-tag marker and whose two parts are non-empty; there is no cdef field
\* when that sequence is empty.
C5_CdefExcludesTaggedBars ==
  (dict = "bing" /\ Extracted /\ calls = <<"client_def_hd_hd">>) =>
    LET bars == Below(Select(Page, ".client_def_container"), ".client_def_bar")
        Kept(b) == /\ Len(Select(b.kids, ".client_def_list_word_Tag")) = 0
                   /\ Text(Select(b.kids, ".client_def_title_bar")) # <<>>
                   /\ Text(Select(b.kids, ".client_def_list")) # <<>>
        kept == SelectSeq(bars, Kept)
        expected == [i \in 1..Len(kept) |->
                       [pos |-> Text(Select(kept[i].kids, ".client_def_title_bar")),
                        def |-> Text(Select(kept[i].kids, ".client_def_list"))]]
    IN  IF expected = <<>> THEN ~Has(result, "cdef")
        ELSE Has(result, "cdef") /\ result.cdef = expected

\* a tagged bar with both parts comes first, two genuine bars follow
C5_Witness ==
  /\ dict = "bing" /\ pc = "done"
  /\ LET bars == Below(Select(Page, ".client_def_container"), ".client_def_bar")
     IN  /\ Len(bars) = 3
         /\ Len(Select(bars[1].kids, ".client_def_list_word_Tag")) > 0
         /\ Text(Select(bars[1].kids, ".client_def_list")) # <<>>
  /\ Has(result, "cdef")
  /\ result.cdef = <<[pos |-> <<"n.">>, def |-> <<"a">>], [pos |-> <<"v.">>, def |-> <<"b">>]>>

OptionalFields ==
  {"phsym", "prons", "rank", "infs", "pattern", "cdef", "basic", "sentences", "sentence",
   "discrimination", "translation", "defs", "list"}

\* C6: no optional field of the returned record is an empty string or an empty
\* sequence: a field that comes out empty is absent.
C6_NoEmptyField ==
  Extracted => \A f \in OptionalFields : Has(result, f) => result[f] # <<>>

\* C7: stars is the integer value of the first run of digits of the star
\* element's class attribute, and the integer 0 without element or digits.
C7_StarsIsInteger ==
  (dict = "youdao" /\ Extracted /\ calls = <<"handle_youdao">>) =>
    LET star == Select(Page, ".star")
        digits == IF star = <<>> THEN <<>> ELSE MatchDigits(ClassAttr(Head(star)))
    IN  /\ Has(result, "stars")
        /\ result.stars = JSNumber(IF digits = <<>> THEN 0 ELSE ToNumber(digits))

\* C8: for a response that is not ok the message written is the error marker's
\* text when the body begins with "<!" and that text is non-empty, else the body
\* when it is non-empty, else the status text; it is written once, and the
\* process exits with 1.
C8_DescribedMessage ==
  (pc = "exited" /\ response.got /\ ~response.ok) =>
    LET b == Raw(response.body)
        markup == Len(b) >= 2 /\ b[1] = "<" /\ b[2] = "!"
        marker == Text(Select(response.body.nodes, ".sc_error"))
        message == IF markup /\ marker # <<>> THEN marker
                   ELSE IF b # <<>> THEN b
                   ELSE response.statusText
    IN  /\ stderr = <<Chalk("red", message)>>
        /\ exitCode = <<1>>

\* a markup body with the marker, described by the marker's text
C8_Witness ==
  /\ pc = "exited" /\ response.got /\ ~response.ok
  /\ response.body.decl
  /\ Text(Select(response.body.nodes, ".sc_error")) = <<"Rate limited">>
  /\ stderr = <<Chalk("red", <<"Rate limited">>)>>

\* C9: the normalized text is a fixed point of normalization, has no whitespace
\* at either end and no two whitespace characters in a row, and keeps the
\* non-whitespace characters of the raw text in order.
C9_NormalizeIdempotent ==
  (dict = "youdao" /\ Extracted /\ calls = <<"handle_youdao">>) =>
    LET raw == Text(Select(Page, ".pattern"))
        n == result.pattern
        Solid(c) == c \notin Whitespace
    IN  /\ Normalize(n) = n
        /\ n # <<>> => Head(n) \notin Whitespace /\ n[Len(n)] \notin Whitespace
        /\ \A i \in 1..(Len(n) - 1) : ~(n[i] \in Whitespace /\ n[i + 1] \in Whitespace)
        /\ \A i \in 1..Len(n) : n[i] \in Whitespace => n[i] = " "
        /\ SelectSeq(n, Solid) = SelectSeq(raw, Solid)

\* a raw text with whitespace at the head and a newline inside
C9_Witness ==
  /\ dict = "youdao" /\ pc = "done"
  /\ Text(Select(Page, ".pattern")) = <<" ", "a", "\n", "b">>
  /\ result.pattern = <<"a", " ", "b">>

C10_State ==
  /\ Len(requests) = (IF pc = "start" THEN 0 ELSE 1)
  /\ (pc \in {"loaded", "render", "done"} \/ calls # <<>> \/ result # EmptyRecord
        \/ stdout # <<>>)
       => response.got /\ response.ok /\ pc \in {"loaded", "render", "done"}
  /\ (response.got /\ ~response.ok) =>
       /\ pc \in {"text", "exited"}
       /\ doc = <<>> /\ result = EmptyRecord /\ calls = <<>> /\ stdout = <<>>
       /\ pc = "exited" =>
            /\ exitCode = <<1>>
            /\ stderr = <<Chalk("red", Describe(response.body, response.statusText))>>

====
